---- MODULE Spec2Model ----
(***************************************************************************)
(* Matrix<T> (src/src/matrix.rs) and get_integral_square_root              *)
(* (src/src/utils.rs) of rusty-nets.                                       *)
(*                                                                         *)
(* A matrix is the record [rows, cols, data]; data is the Vec<T>, a        *)
(* sequence whose element k+1 is the Vec's element k.  T is modelled by    *)
(* the integers.  A panic (assert!, assert_eq!, Vec index out of range)    *)
(* is the field fault = TRUE of an operation's outcome.  usize products    *)
(* rows * cols are exact: a product that leaves usize asks for a Vec that  *)
(* no address space holds.                                                 *)
(***************************************************************************)
EXTENDS Integers, Sequences, FiniteSets

VARIABLES
  mat,          \* the caller's matrix: [rows, cols, data]
  last,         \* the last call: its name, arguments and outcome
  unvalidated,  \* history: mat comes from a from() whose data length is not rows*cols
  written       \* history: per cell of mat, <<v>> for the value constructed or last set, <<>> without storage

vars == <<mat, last, unvalidated, written>>

\* ------------------------------------------------------------------ bounds

MaxDim == 2        \* rows and cols range over 0..MaxDim
MaxElem == 1       \* elements handed to from/set range over 0..MaxElem
LenSlack == 1      \* from() is given rows*cols - LenSlack .. rows*cols + LenSlack elements
MantissaBits == 7  \* significand width of the float model (an f64 has 53)
MaxSqrtArg == 400  \* get_integral_square_root is called with 0..MaxSqrtArg

Dims == 0..MaxDim
Elems == 0..MaxElem

\* ------------------------------------------------------------------ Matrix

zero == 0

NoMatrix == [rows |-> 0, cols |-> 0, data |-> <<>>]

Panic == [fault |-> TRUE, val |-> zero]

\* new with the Vec sized rows + cols.
new_sum_len(rows, cols) ==
  [rows |-> rows, cols |-> cols, data |-> [k \in 1..(rows + cols) |-> zero]]

\* new with rows and cols stored the other way round.
new_swapped(rows, cols) ==
  [rows |-> cols, cols |-> rows, data |-> [k \in 1..(rows * cols) |-> zero]]

new(rows, cols) ==
  [rows |-> rows, cols |-> cols, data |-> [k \in 1..(rows * cols) |-> zero]]

from(rows, cols, data) ==
  [rows |-> rows, cols |-> cols, data |-> data]

index(m, i, j) == (i * m.cols) + j

\* at without assert!(j < self.cols).
at_no_col_assert(m, i, j) ==
  IF ~(i < m.rows) THEN Panic
  ELSE IF ~(index(m, i, j) < Len(m.data)) THEN Panic
  ELSE [fault |-> FALSE, val |-> m.data[index(m, i, j) + 1]]

at(m, i, j) ==
  IF ~(i < m.rows) THEN Panic
  ELSE IF ~(j < m.cols) THEN Panic
  ELSE IF ~(index(m, i, j) < Len(m.data)) THEN Panic
  ELSE [fault |-> FALSE, val |-> m.data[index(m, i, j) + 1]]

\* set writing at offset i * rows + j.
set_row_stride(m, i, j, val) ==
  IF ~(i < m.rows) THEN [fault |-> TRUE, m |-> m]
  ELSE IF ~(j < m.cols) THEN [fault |-> TRUE, m |-> m]
  ELSE IF ~((i * m.rows) + j < Len(m.data)) THEN [fault |-> TRUE, m |-> m]
  ELSE [fault |-> FALSE, m |-> [m EXCEPT !.data[(i * m.rows) + j + 1] = val]]

set(m, i, j, val) ==
  IF ~(i < m.rows) THEN [fault |-> TRUE, m |-> m]
  ELSE IF ~(j < m.cols) THEN [fault |-> TRUE, m |-> m]
  ELSE IF ~(index(m, i, j) < Len(m.data)) THEN [fault |-> TRUE, m |-> m]
  ELSE [fault |-> FALSE, m |-> [m EXCEPT !.data[index(m, i, j) + 1] = val]]

\* The closures handed to map and map_with.
Func1 == {"double", "succ"}
Func2 == {"plus", "minus", "times"}

Apply1(func, a) ==
  IF func = "double" THEN a * 2 ELSE a + 1

Apply2(func, a, b) ==
  IF func = "plus" THEN a + b
  ELSE IF func = "minus" THEN a - b
  ELSE a * b

\* The outcome of a call that builds a matrix: alloc says that Matrix::new ran,
\* calls counts the closure calls (for *, the multiply-accumulate steps).
Faulted(alloc, calls) ==
  [fault |-> TRUE, alloc |-> alloc, calls |-> calls, result |-> NoMatrix]

Returned(calls, result) ==
  [fault |-> FALSE, alloc |-> TRUE, calls |-> calls, result |-> result]

RECURSIVE map_loop(_, _, _, _, _, _)
map_loop(self, func, result, i, j, calls) ==
  IF ~(i < self.rows) THEN Returned(calls, result)
  ELSE IF ~(j < self.cols) THEN map_loop(self, func, result, i + 1, 0, calls)
  ELSE LET a == at(self, i, j) IN
       IF a.fault THEN Faulted(TRUE, calls)
       ELSE LET s == set(result, i, j, Apply1(func, a.val)) IN
            IF s.fault THEN Faulted(TRUE, calls + 1)
            ELSE map_loop(self, func, s.m, i, j + 1, calls + 1)

\* map with the result allocated cols x rows.
map_transposed_shape(self, func) ==
  map_loop(self, func, new(self.cols, self.rows), 0, 0, 0)

map(self, func) ==
  map_loop(self, func, new(self.rows, self.cols), 0, 0, 0)

RECURSIVE map_with_loop(_, _, _, _, _, _, _)
map_with_loop(self, other, func, result, i, j, calls) ==
  IF ~(i < self.rows) THEN Returned(calls, result)
  ELSE IF ~(j < self.cols) THEN map_with_loop(self, other, func, result, i + 1, 0, calls)
  ELSE LET a == at(self, i, j) IN
       IF a.fault THEN Faulted(TRUE, calls)
       ELSE LET b == at(other, i, j) IN
            IF b.fault THEN Faulted(TRUE, calls)
            ELSE LET s == set(result, i, j, Apply2(func, a.val, b.val)) IN
                 IF s.fault THEN Faulted(TRUE, calls + 1)
                 ELSE map_with_loop(self, other, func, s.m, i, j + 1, calls + 1)

\* map_with with the operands handed to the closure the other way round.
map_with_swapped(self, other, func) ==
  IF self.rows # other.rows THEN Faulted(FALSE, 0)
  ELSE IF self.cols # other.cols THEN Faulted(FALSE, 0)
  ELSE map_with_loop(other, self, func, new(self.rows, self.cols), 0, 0, 0)

map_with(self, other, func) ==
  IF self.rows # other.rows THEN Faulted(FALSE, 0)
  ELSE IF self.cols # other.cols THEN Faulted(FALSE, 0)
  ELSE map_with_loop(self, other, func, new(self.rows, self.cols), 0, 0, 0)

RECURSIVE map_with_by_ref_loop(_, _, _, _, _, _, _)
map_with_by_ref_loop(self, other, func, result, i, j, calls) ==
  IF ~(i < self.rows) THEN Returned(calls, result)
  ELSE IF ~(j < self.cols) THEN map_with_by_ref_loop(self, other, func, result, i + 1, 0, calls)
  ELSE LET a == at(self, i, j) IN
       IF a.fault THEN Faulted(TRUE, calls)
       ELSE LET b == at(other, i, j) IN
            IF b.fault THEN Faulted(TRUE, calls)
            ELSE LET s == set(result, i, j, Apply2(func, a.val, b.val)) IN
                 IF s.fault THEN Faulted(TRUE, calls + 1)
                 ELSE map_with_by_ref_loop(self, other, func, s.m, i, j + 1, calls + 1)

\* map_with_by_ref without assert_eq!(self.cols, other.cols).
map_with_by_ref_no_cols_check(self, other, func) ==
  IF self.rows # other.rows THEN Faulted(FALSE, 0)
  ELSE map_with_by_ref_loop(self, other, func, new(self.rows, self.cols), 0, 0, 0)

map_with_by_ref(self, other, func) ==
  IF self.rows # other.rows THEN Faulted(FALSE, 0)
  ELSE IF self.cols # other.cols THEN Faulted(FALSE, 0)
  ELSE map_with_by_ref_loop(self, other, func, new(self.rows, self.cols), 0, 0, 0)

add(self, other) == map_with(self, other, "plus")

add_ref(self, other) == map_with_by_ref(self, other, "plus")

sub(self, other) == map_with(self, other, "minus")

\* &a - &b computed as b - a.
sub_ref_swapped(self, other) == map_with_by_ref(other, self, "minus")

sub_ref(self, other) == map_with_by_ref(self, other, "minus")

\* The innermost loop of both mul forms: val = val + self.at(i, k) * other.at(k, j).
RECURSIVE mul_acc(_, _, _, _, _, _, _)
mul_acc(self, other, i, j, k, val, calls) ==
  IF ~(k < self.cols) THEN [fault |-> FALSE, val |-> val, calls |-> calls]
  ELSE LET a == at(self, i, k) IN
       IF a.fault THEN [fault |-> TRUE, val |-> val, calls |-> calls]
       ELSE LET b == at(other, k, j) IN
            IF b.fault THEN [fault |-> TRUE, val |-> val, calls |-> calls]
            ELSE mul_acc(self, other, i, j, k + 1, val + (a.val * b.val), calls + 1)

RECURSIVE mul_loop(_, _, _, _, _, _)
mul_loop(self, other, result, i, j, calls) ==
  IF ~(i < self.rows) THEN Returned(calls, result)
  ELSE IF ~(j < other.cols) THEN mul_loop(self, other, result, i + 1, 0, calls)
  ELSE LET init == at(result, i, j) IN
       IF init.fault THEN Faulted(TRUE, calls)
       ELSE LET acc == mul_acc(self, other, i, j, 0, init.val, calls) IN
            IF acc.fault THEN Faulted(TRUE, acc.calls)
            ELSE LET s == set(result, i, j, acc.val) IN
                 IF s.fault THEN Faulted(TRUE, acc.calls)
                 ELSE mul_loop(self, other, s.m, i, j + 1, acc.calls)

\* mul with the result allocated self.rows x self.cols.
mul_self_cols(self, other) ==
  IF self.cols # other.rows THEN Faulted(FALSE, 0)
  ELSE mul_loop(self, other, new(self.rows, self.cols), 0, 0, 0)

mul(self, other) ==
  IF self.cols # other.rows THEN Faulted(FALSE, 0)
  ELSE mul_loop(self, other, new(self.rows, other.cols), 0, 0, 0)

RECURSIVE mul_ref_loop(_, _, _, _, _, _)
mul_ref_loop(self, other, result, i, j, calls) ==
  IF ~(i < self.rows) THEN Returned(calls, result)
  ELSE IF ~(j < other.cols) THEN mul_ref_loop(self, other, result, i + 1, 0, calls)
  ELSE LET acc == mul_acc(self, other, i, j, 0, zero, calls) IN
       IF acc.fault THEN Faulted(TRUE, acc.calls)
       ELSE LET s == set(result, i, j, acc.val) IN
            IF s.fault THEN Faulted(TRUE, acc.calls)
            ELSE mul_ref_loop(self, other, s.m, i, j + 1, acc.calls)

mul_ref(self, other) ==
  IF self.cols # other.rows THEN Faulted(FALSE, 0)
  ELSE mul_ref_loop(self, other, new(self.rows, other.cols), 0, 0, 0)

\* == in its two forms: the flattened storage compared element by element.
eq(self, other) == self.data = other.data

eq_ref(self, other) == self.data = other.data

\* ------------------------------------------------- get_integral_square_root

\* An f64 is modelled with MantissaBits significant bits, rounding to nearest,
\* ties to even.  A float is num / 2^shift; a float that came from a usize is
\* a whole number and is kept as that number.

RECURSIVE Pow2(_)
Pow2(n) == IF n = 0 THEN 1 ELSE 2 * Pow2(n - 1)

\* The e with 2^e <= x < 2^(e+1), for x >= 1.
RECURSIVE Exponent(_)
Exponent(x) == IF x < 2 THEN 0 ELSE 1 + Exponent(x \div 2)

\* val as f64
as_f64(val) ==
  IF val < Pow2(MantissaBits) THEN val
  ELSE LET ulp == Pow2(Exponent(val) - MantissaBits + 1)
           q == val \div ulp
           r == val % ulp
       IN  IF (2 * r > ulp) \/ (2 * r = ulp /\ q % 2 = 1)
           THEN (q + 1) * ulp
           ELSE q * ulp

\* f64::sqrt, correctly rounded: the root of x lies in [2^e, 2^(e+1)) with
\* e = Exponent(x) \div 2, so its last significant bit weighs 2^-shift.
sqrt(x) ==
  IF x = 0 THEN [num |-> 0, shift |-> 0]
  ELSE LET shift == MantissaBits - 1 - (Exponent(x) \div 2)
           y == x * Pow2(2 * shift)
           s == CHOOSE n \in Pow2(MantissaBits - 1)..Pow2(MantissaBits) :
                  n * n <= y /\ y < (n + 1) * (n + 1)
       IN  [num |-> IF y - (s * s) <= s THEN s ELSE s + 1, shift |-> shift]

\* f64::fract, as the numerator over 2^shift
fract(f) == f.num % Pow2(f.shift)

\* square_root as usize
as_usize(f) == f.num \div Pow2(f.shift)

None == [some |-> FALSE, value |-> 0]

Some(v) == [some |-> TRUE, value |-> v]

get_integral_square_root(val) ==
  LET square_root == sqrt(as_f64(val)) IN
  IF fract(square_root) # 0 THEN None
  ELSE Some(as_usize(square_root))

\* ------------------------------------------------------------------ state

\* What from() may be given for a rows x cols matrix.
DataFor(rows, cols) ==
  UNION {[1..n -> Elems] :
           n \in {l \in ((rows * cols) - LenSlack)..((rows * cols) + LenSlack) : l >= 0}}

Inputs ==
  UNION {{from(rows, cols, data) : data \in DataFor(rows, cols)} :
           rows \in Dims, cols \in Dims}

Cells(m) == (0..(m.rows - 1)) \X (0..(m.cols - 1))

\* Per cell, <<v>> for the stored element and <<>> for a cell without storage.
Stored(m) ==
  [c \in Cells(m) |->
     IF index(m, c[1], c[2]) < Len(m.data)
     THEN <<m.data[index(m, c[1], c[2]) + 1]>>
     ELSE <<>>]

Blank ==
  [op |-> "none", self |-> NoMatrix, other |-> NoMatrix, i |-> 0, j |-> 0,
   val |-> zero, func |-> "none", fault |-> FALSE, alloc |-> FALSE, calls |-> 0,
   result |-> NoMatrix, out |-> zero, equal |-> FALSE, opt |-> None]

\* The record of a call that builds a matrix from mat (and other).
Built(op, other, func, r) ==
  [Blank EXCEPT !.op = op, !.self = mat, !.other = other, !.func = func,
                !.fault = r.fault, !.alloc = r.alloc, !.calls = r.calls,
                !.result = r.result]

\* The caller looks at the outcome of a call, then keeps the matrix it returned
\* (Adopt) or lets it go (Drop), before its next call.
Idle == last.op = "none"

Init ==
  /\ \E rows \in Dims, cols \in Dims :
       /\ mat = new(rows, cols)
       /\ last = Blank
       /\ written = [c \in (0..(rows - 1)) \X (0..(cols - 1)) |-> <<zero>>]
  /\ unvalidated = FALSE

New ==
  /\ Idle
  /\ \E rows \in Dims, cols \in Dims :
    /\ mat' = new(rows, cols)
    /\ last' = [Blank EXCEPT !.op = "new", !.i = rows, !.j = cols,
                             !.alloc = TRUE, !.result = new(rows, cols)]
    /\ written' = [c \in (0..(rows - 1)) \X (0..(cols - 1)) |-> <<zero>>]
    /\ unvalidated' = FALSE

From ==
  /\ Idle
  /\ \E rows \in Dims, cols \in Dims :
    \E data \in DataFor(rows, cols) :
      /\ mat' = from(rows, cols, data)
      /\ last' = [Blank EXCEPT !.op = "from", !.i = rows, !.j = cols,
                               !.other = [NoMatrix EXCEPT !.data = data],
                               !.result = from(rows, cols, data)]
      /\ written' = [c \in (0..(rows - 1)) \X (0..(cols - 1)) |->
                       IF (c[1] * cols) + c[2] < Len(data)
                       THEN <<data[(c[1] * cols) + c[2] + 1]>>
                       ELSE <<>>]
      /\ unvalidated' = (Len(data) # rows * cols)

At ==
  /\ Idle
  /\ \E i \in Dims, j \in Dims :
    LET r == at(mat, i, j) IN
    /\ last' = [Blank EXCEPT !.op = "at", !.self = mat, !.i = i, !.j = j,
                             !.fault = r.fault, !.out = r.val]
    /\ UNCHANGED <<mat, unvalidated, written>>

Set ==
  /\ Idle
  /\ \E i \in Dims, j \in Dims, val \in Elems :
    LET r == set(mat, i, j, val) IN
    /\ mat' = r.m
    /\ last' = [Blank EXCEPT !.op = "set", !.self = mat, !.i = i, !.j = j,
                             !.val = val, !.fault = r.fault]
    /\ written' = IF r.fault THEN written ELSE [written EXCEPT ![<<i, j>>] = <<val>>]
    /\ UNCHANGED unvalidated

Map ==
  /\ Idle
  /\ \E func \in Func1 :
    /\ last' = Built("map", NoMatrix, func, map(mat, func))
    /\ UNCHANGED <<mat, unvalidated, written>>

MapWith ==
  /\ Idle
  /\ \E other \in Inputs, func \in Func2 :
    /\ last' = Built("map_with", other, func, map_with(mat, other, func))
    /\ UNCHANGED <<mat, unvalidated, written>>

MapWithByRef ==
  /\ Idle
  /\ \E other \in Inputs, func \in Func2 :
    /\ last' = Built("map_with_by_ref", other, func, map_with_by_ref(mat, other, func))
    /\ UNCHANGED <<mat, unvalidated, written>>

Add ==
  /\ Idle
  /\ \E other \in Inputs :
    /\ last' = Built("add", other, "none", add(mat, other))
    /\ UNCHANGED <<mat, unvalidated, written>>

AddRef ==
  /\ Idle
  /\ \E other \in Inputs :
    /\ last' = Built("add_ref", other, "none", add_ref(mat, other))
    /\ UNCHANGED <<mat, unvalidated, written>>

Sub ==
  /\ Idle
  /\ \E other \in Inputs :
    /\ last' = Built("sub", other, "none", sub(mat, other))
    /\ UNCHANGED <<mat, unvalidated, written>>

SubRef ==
  /\ Idle
  /\ \E other \in Inputs :
    /\ last' = Built("sub_ref", other, "none", sub_ref(mat, other))
    /\ UNCHANGED <<mat, unvalidated, written>>

Mul ==
  /\ Idle
  /\ \E other \in Inputs :
    /\ last' = Built("mul", other, "none", mul(mat, other))
    /\ UNCHANGED <<mat, unvalidated, written>>

MulRef ==
  /\ Idle
  /\ \E other \in Inputs :
    /\ last' = Built("mul_ref", other, "none", mul_ref(mat, other))
    /\ UNCHANGED <<mat, unvalidated, written>>

Eq ==
  /\ Idle
  /\ \E other \in Inputs :
    /\ last' = [Blank EXCEPT !.op = "eq", !.self = mat, !.other = other,
                             !.equal = eq(mat, other)]
    /\ UNCHANGED <<mat, unvalidated, written>>

EqRef ==
  /\ Idle
  /\ \E other \in Inputs :
    /\ last' = [Blank EXCEPT !.op = "eq_ref", !.self = mat, !.other = other,
                             !.equal = eq_ref(mat, other)]
    /\ UNCHANGED <<mat, unvalidated, written>>

BuildOps ==
  {"map", "map_with", "map_with_by_ref", "add", "add_ref", "sub", "sub_ref",
   "mul", "mul_ref"}

\* The caller goes on with the matrix a call returned (let mat = result), as
\* long as its elements are ones the model hands out.
Adopt ==
  /\ last.op \in BuildOps
  /\ ~last.fault
  /\ \A k \in 1..Len(last.result.data) : last.result.data[k] \in Elems
  /\ mat' = last.result
  /\ last' = Blank
  /\ written' = Stored(last.result)
  /\ unvalidated' = FALSE

Drop ==
  /\ ~Idle
  /\ last' = Blank
  /\ UNCHANGED <<mat, unvalidated, written>>

Next ==
  \/ New
  \/ From
  \/ At
  \/ Set
  \/ Map
  \/ MapWith
  \/ MapWithByRef
  \/ Add
  \/ AddRef
  \/ Sub
  \/ SubRef
  \/ Mul
  \/ MulRef
  \/ Eq
  \/ EqRef
  \/ Adopt
  \/ Drop

Spec == Init /\ [][Next]_vars

\* get_integral_square_root on its own: it reads and writes no matrix.
InitSqrt ==
  /\ mat = new(0, 0)
  /\ last = Blank
  /\ written = Stored(new(0, 0))
  /\ unvalidated = FALSE

GetIntegralSquareRoot ==
  /\ Idle
  /\ \E val \in 0..MaxSqrtArg :
    /\ last' = [Blank EXCEPT !.op = "get_integral_square_root", !.i = val,
                             !.opt = get_integral_square_root(val)]
    /\ UNCHANGED <<mat, unvalidated, written>>

NextSqrt ==
  \/ GetIntegralSquareRoot
  \/ Drop

SpecSqrt == InitSqrt /\ [][NextSqrt]_vars

\* ------------------------------------------------------------------ claims

WellFormed(m) == Len(m.data) = m.rows * m.cols

HasStorage(m) == Len(m.data) >= m.rows * m.cols

SameShape(a, b) == a.rows = b.rows /\ a.cols = b.cols

Value(v) == [fault |-> FALSE, val |-> v]

Outcome(r) == <<r.fault, r.result>>

\* The sum over k in [0, n) of A.at(i, k) * B.at(k, j), from zero.
RECURSIVE DotProduct(_, _, _, _, _)
DotProduct(A, B, i, j, n) ==
  IF n = 0 THEN 0
  ELSE DotProduct(A, B, i, j, n - 1) + (at(A, i, n - 1).val * at(B, n - 1, j).val)

IsSquare(n) == \E r \in 0..n : r * r = n

\* C1: for A (m x n) and B (n x p) with data length rows*cols, both forms of
\* A * B return an m x p matrix whose cell (i,j) is the sum over k < n of
\* A.at(i,k) * B.at(k,j) started from zero, and the caller's A is as it was.
C1_MulIsMatrixProduct ==
  (/\ last.op \in {"mul", "mul_ref"}
   /\ WellFormed(last.self)
   /\ WellFormed(last.other)
   /\ last.self.cols = last.other.rows)
  => /\ ~last.fault
     /\ last.result.rows = last.self.rows
     /\ last.result.cols = last.other.cols
     /\ \A i \in 0..(last.self.rows - 1), j \in 0..(last.other.cols - 1) :
          at(last.result, i, j) =
            Value(DotProduct(last.self, last.other, i, j, last.self.cols))
     /\ mat = last.self

\* C1 happens: a 2x2 by 2x2 product with a cell that sums two non-zero products.
C1_Witness ==
  /\ last.op = "mul"
  /\ ~last.fault
  /\ last.self.rows = 2 /\ last.self.cols = 2 /\ last.other.cols = 2
  /\ WellFormed(last.self) /\ WellFormed(last.other)
  /\ at(last.result, 1, 0).val = 2
  /\ at(last.result, 0, 1).val = 0

\* C2 as stated: for every matrix and every valid (i,j), after set(i,j,v) the
\* call at(i,j) returns v.
C2_SetThenAtAnyMatrix ==
  (last.op = "set" /\ last.i < last.self.rows /\ last.j < last.self.cols)
  => at(mat, last.i, last.j) = Value(last.val)

\* C2 amended: for every valid (i,j) whose offset i*cols + j lies within the
\* data, after set(i,j,v) at(i,j) returns v, every other valid cell gives what
\* it gave before, and rows, cols and the data length are as before; and in
\* every state each cell gives the value constructed or last set to it.
C2_SetThenAt ==
  /\ (/\ last.op = "set"
      /\ last.i < last.self.rows
      /\ last.j < last.self.cols
      /\ index(last.self, last.i, last.j) < Len(last.self.data))
     => /\ ~last.fault
        /\ at(mat, last.i, last.j) = Value(last.val)
        /\ \A c \in Cells(mat) :
             c # <<last.i, last.j>> => at(mat, c[1], c[2]) = at(last.self, c[1], c[2])
        /\ mat.rows = last.self.rows
        /\ mat.cols = last.self.cols
        /\ Len(mat.data) = Len(last.self.data)
  /\ DOMAIN written = Cells(mat)
  /\ \A c \in Cells(mat) :
       IF written[c] = <<>> THEN at(mat, c[1], c[2]).fault
       ELSE at(mat, c[1], c[2]) = Value(written[c][1])

\* C2 happens: a set that changes a cell of a 2x2 matrix, another cell being 1.
C2_Witness ==
  /\ last.op = "set"
  /\ ~last.fault
  /\ mat.rows = 2 /\ mat.cols = 2
  /\ last.i = 1 /\ last.j = 0
  /\ last.val = 1
  /\ at(last.self, 1, 0) = Value(0)
  /\ at(mat, 0, 1) = Value(1)

\* C3: for every matrix, whatever its data length, at(i,j) and set(i,j,v) with
\* i >= rows or j >= cols fault, and the faulting set leaves the matrix as it was.
C3_OutOfRangeFaults ==
  /\ (last.op = "at" /\ (last.i >= last.self.rows \/ last.j >= last.self.cols))
     => last.fault
  /\ (last.op = "set" /\ (last.i >= last.self.rows \/ last.j >= last.self.cols))
     => (last.fault /\ mat = last.self)

\* C3 happens: a set with j >= cols whose offset i*cols + j is inside the data.
C3_Witness ==
  /\ last.op = "set"
  /\ last.i < last.self.rows
  /\ last.j >= last.self.cols
  /\ index(last.self, last.i, last.j) < Len(last.self.data)
  /\ last.fault

\* C4: map_with, map_with_by_ref, + and - fault when the operands differ in
\* rows or cols, * faults when self.cols # other.rows, and the fault comes
\* before any closure call and before the result is allocated.
C4_ShapeMismatchFaultsFirst ==
  /\ (/\ last.op \in {"map_with", "map_with_by_ref", "add", "add_ref", "sub", "sub_ref"}
      /\ ~SameShape(last.self, last.other))
     => (last.fault /\ last.calls = 0 /\ ~last.alloc /\ last.result = NoMatrix)
  /\ (/\ last.op \in {"mul", "mul_ref"}
      /\ last.self.cols # last.other.rows)
     => (last.fault /\ last.calls = 0 /\ ~last.alloc /\ last.result = NoMatrix)

\* C4 happens: a 2x2 matrix times a well-formed 1x2 matrix.
C4_Witness ==
  /\ last.op = "mul_ref"
  /\ last.self.rows = 2 /\ last.self.cols = 2 /\ WellFormed(last.self)
  /\ last.other.rows = 1 /\ last.other.cols = 2 /\ WellFormed(last.other)
  /\ last.fault

\* C5 as stated: every matrix has data length rows*cols, from() with any data
\* included.
C5_AlwaysWellFormed == WellFormed(mat)

\* C5 amended: every matrix returned by new, map, map_with, map_with_by_ref,
\* +, - or * has data length rows*cols; from() keeps the data it is given, and
\* set keeps the length: a matrix has data length rows*cols unless it comes
\* from a from() that was given another length.
C5_WellFormedUnlessFrom ==
  /\ WellFormed(mat) <=> ~unvalidated
  /\ (last.op \in BuildOps /\ ~last.fault) => WellFormed(last.result)
  /\ last.op = "new" => WellFormed(mat)
  /\ last.op = "from" => mat.data = last.other.data
  /\ last.op = "set" => Len(mat.data) = Len(last.self.data)

\* C5 happens: a product built from a matrix that from() left too long.
C5_Witness ==
  /\ last.op = "mul"
  /\ unvalidated
  /\ Len(mat.data) > mat.rows * mat.cols
  /\ ~last.fault
  /\ Len(last.result.data) = 4

C7_NewIsZero ==
  last.op = "new"
  => /\ ~last.fault
     /\ mat.rows = last.i
     /\ mat.cols = last.j
     /\ Len(mat.data) = last.i * last.j
     /\ \A i \in 0..(last.i - 1), j \in 0..(last.j - 1) : at(mat, i, j) = Value(zero)
     /\ (last.i = 0 \/ last.j = 0) => mat.data = <<>>

\* C7 happens: new(1, 2).
C7_Witness ==
  /\ last.op = "new"
  /\ last.i = 1 /\ last.j = 2
  /\ mat.data = <<0, 0>>

\* C8 as stated: for every pair of equally-shaped matrices, map_with and
\* map_with_by_ref return the matrix of f(A.at(i,j), B.at(i,j)).
C8_MapWithAnyData ==
  (last.op \in {"map_with", "map_with_by_ref"} /\ SameShape(last.self, last.other))
  => /\ ~last.fault
     /\ \A c \in Cells(last.self) :
          at(last.result, c[1], c[2]) =
            Value(Apply2(last.func, at(last.self, c[1], c[2]).val,
                                    at(last.other, c[1], c[2]).val))

\* C8 amended: for equally-shaped A and B that both hold at least rows*cols
\* elements, map_with and map_with_by_ref return a matrix of A's shape whose
\* cell (i,j) is f(A.at(i,j), B.at(i,j)), the caller's A unchanged; A + B has
\* the cells A.at(i,j) + B.at(i,j) and A - B the cells A.at(i,j) - B.at(i,j).
C8_MapWithIsCellwise ==
  (/\ last.op \in {"map_with", "map_with_by_ref", "add", "add_ref", "sub", "sub_ref"}
   /\ SameShape(last.self, last.other)
   /\ HasStorage(last.self)
   /\ HasStorage(last.other))
  => /\ ~last.fault
     /\ SameShape(last.result, last.self)
     /\ WellFormed(last.result)
     /\ \A c \in Cells(last.self) :
          LET a == at(last.self, c[1], c[2]).val
              b == at(last.other, c[1], c[2]).val
          IN  at(last.result, c[1], c[2]) =
                Value(CASE last.op \in {"add", "add_ref"} -> a + b
                        [] last.op \in {"sub", "sub_ref"} -> a - b
                        [] OTHER -> Apply2(last.func, a, b))
     /\ mat = last.self

\* C8 happens: a 2x2 map_with of minus with a cell 0 - 1.
C8_Witness ==
  /\ last.op = "map_with"
  /\ last.func = "minus"
  /\ last.self.rows = 2 /\ last.self.cols = 2
  /\ ~last.fault
  /\ at(last.result, 1, 1) = Value(-1)
  /\ at(last.result, 0, 0) = Value(1)

\* C9: for M with data length rows*cols, M.map(f) returns a matrix of M's
\* shape whose cell (i,j) is f(M.at(i,j)), f is called once per cell, and M
\* is as it was.
C9_MapIsCellwise ==
  (last.op = "map" /\ WellFormed(last.self))
  => /\ ~last.fault
     /\ SameShape(last.result, last.self)
     /\ WellFormed(last.result)
     /\ \A c \in Cells(last.self) :
          at(last.result, c[1], c[2]) =
            Value(Apply1(last.func, at(last.self, c[1], c[2]).val))
     /\ last.calls = last.self.rows * last.self.cols
     /\ mat = last.self

\* C9 happens: doubling a 2x2 matrix with cells 0 and 1.
C9_Witness ==
  /\ last.op = "map"
  /\ last.func = "double"
  /\ last.self.rows = 2 /\ last.self.cols = 2 /\ WellFormed(last.self)
  /\ last.calls = 4
  /\ at(last.result, 0, 1) = Value(2)
  /\ at(last.result, 1, 0) = Value(0)

\* C10: get_integral_square_root(val) returns Some(r) with r*r = val exactly
\* when val is a perfect square, and None for every other val.
C10_SomeIffPerfectSquare ==
  last.op = "get_integral_square_root"
  => /\ IsSquare(last.i) => (last.opt.some /\ last.opt.value * last.opt.value = last.i)
     /\ ~IsSquare(last.i) => last.opt = None

====
